---- MODULE Spec2Model ----
(***************************************************************************)
(* Model of the twitch-client command line scripts:                        *)
(*   auth-server.js (src/unnamed/part_000)  the OAuth callback listener    *)
(*   auth.js                                client / user / validate /     *)
(*                                          refresh commands               *)
(*   test-api.js                            the Helix probe commands       *)
(* One behaviour of the model is one run of one script.  The identity      *)
(* provider and the Helix API are the environment: their answers are drawn *)
(* from small sets.                                                        *)
(***************************************************************************)
EXTENDS Integers, Sequences, FiniteSets, TLC

VARIABLES
  script,    \* which script this run executes
  env,       \* process.env after dotenv: the four TWITCH_* values
  command,   \* process.argv[2] || 'help'   ("none" for the listener)
  pc,        \* position of the script's main flow / state of the process
  sent,      \* outbound HTTP requests made with fetch, in order
  reqs,      \* listener: the inbound requests accepted so far, in order
  timers,    \* listener: pending setTimeout(process.exit) callbacks
  consumed,  \* provider: authorization codes already exchanged
  console,   \* auth.js / test-api.js: messages written to the console
  result,    \* auth.js: what the command's function returned
  response,  \* auth.js: the response the awaited fetch resolved with
  bodyRead,  \* auth.js: whether response.json() was called
  user,      \* test-api.js: what getUser() returned
  calls      \* test-api.js: the apiCall invocations, in order

vars == <<script, env, command, pc, sent, reqs, timers, consumed,
          console, result, response, bodyRead, user, calls>>

\* Largest number of inbound requests one listener run accepts in the model.
MaxRequests == 2

Scripts == {"auth-server", "auth", "test-api"}
EnvNames == {"CLIENT_ID", "CLIENT_SECRET", "ACCESS_TOKEN", "REFRESH_TOKEN"}

\* A string read from the environment or from the query string: missing
\* (undefined / null), the empty string, or a non-empty string.
EnvVals == {"absent", "empty", "set"}

\* JavaScript truthiness of such a value, as tested by `if (x)` / `if (!x)`:
\* undefined, null and '' are falsy, every non-empty string is truthy.
Truthy(v) == v \notin {"absent", "empty"}

----------------------------------------------------------------------------
(* The identity token endpoint, POST https://id.twitch.tv/oauth2/token.    *)

\* Bodies the endpoint (or a proxy in front of it) can answer with.
\*   unparseable          not JSON: response.json() rejects
\*   null                 the JSON value null
\*   err_invalid_code     {status: 400, message: "Invalid authorization code"}
\*   err_invalid_client   {status: 400, message: "invalid client"}
\*   access_only          {access_token, expires_in}
\*   token_pair           {access_token, refresh_token, expires_in, scope}
ErrorPayloads == {"err_invalid_code", "err_invalid_client"}
TokenBodies ==
  {"unparseable", "null", "access_only", "token_pair"} \cup ErrorPayloads

\* data.access_token is a non-empty string
HasAccessToken(body) == body \in {"access_only", "token_pair"}
\* data.refresh_token is a non-empty string
HasRefreshToken(body) == body = "token_pair"

\* fetch() rejected: no response at all
NetworkError == [transport |-> FALSE, status |-> 0, body |-> "none"]
\* fetch() has not settled yet
NoResponse == [transport |-> FALSE, status |-> -1, body |-> "none"]

\* What a POST to the token endpoint can come back with.  A body holding
\* tokens comes only with a 2xx status, and only when `grantable`.
TokenResponses(grantable) ==
  {NetworkError}
    \cup { [transport |-> TRUE, status |-> 200, body |-> b] :
             b \in {"unparseable", "null"}
                   \cup (IF grantable THEN {"access_only", "token_pair"} ELSE {}) }
    \cup { [transport |-> TRUE, status |-> s, body |-> b] :
             s \in {400, 500}, b \in ErrorPayloads \cup {"unparseable"} }

\* An outbound request as recorded in `sent`: the environment values its
\* headers or body are built from, its argument, and the inbound request
\* (listener) or apiCall invocation (test-api.js) it was made for (0: none).
Outbound(method, url, uses, arg, for) ==
  [method |-> method, url |-> url, uses |-> uses, arg |-> arg, for |-> for]

----------------------------------------------------------------------------
(* auth-server.js: the callback listener.                                  *)

Paths == {"/callback", "/"}
\* values of the `code` query parameter; c1 and c2 are two authorization
\* codes the provider issued (the user authorized twice)
CodeVals == {"absent", "empty", "c1", "c2"}
\* values of the `error` query parameter
ErrorVals == {"absent", "empty", "access_denied"}

\* The synchronous part of the request handler, up to its first await:
\* the record kept for the request.
\*   phase    "awaiting"   the handler is suspended in await exchangeCodeForToken
\*            "responded"  res.end() was called
\*            "unanswered" the handler returned (or rejected) without res.end()
\*   status   the status of res.writeHead, 0 when none was written
\*   posts    token-exchange POSTs made for this request
\*   tokens   what the exchange returned ("none" before it returns, "threw"
\*            when the awaited promise rejected or tokens.access_token threw)
\*   embeds   the payload printed into the page
\*   printed  the credentials were written to the console
Handle(path, code, error) ==
  LET base == [path |-> path, code |-> code, error |-> error,
               phase |-> "responded", status |-> 0, page |-> "none",
               posts |-> 0, tokens |-> "none", embeds |-> "none",
               printed |-> FALSE]
  IN  IF path = "/callback"
        THEN IF Truthy(error)
               THEN [base EXCEPT !.status = 400, !.page = "authorization_failed",
                                 !.embeds = error]
               ELSE IF Truthy(code)
                      THEN [base EXCEPT !.phase = "awaiting", !.posts = 1]
                      ELSE [base EXCEPT !.phase = "unanswered"]
        ELSE [base EXCEPT !.status = 200, !.page = "placeholder"]

\* exchangeCodeForToken(code): the POST it sends
ExchangePost(code, i) ==
  Outbound("POST", "oauth2/token:authorization_code",
           {"CLIENT_ID", "CLIENT_SECRET"}, code, i)

\* exchangeCodeForToken(code) followed by `tokens.access_token`: does the
\* await, or the property read that follows it, throw?
ExchangeThrows(resp) ==
  \/ ~resp.transport            \* fetch rejects
  \/ resp.body = "unparseable"  \* response.json() rejects
  \/ resp.body = "null"         \* tokens.access_token on null: TypeError

\* A request arrives while the process is listening: the handler runs up to
\* its first await (or to its end).
Receive(path, code, error) ==
  /\ script = "auth-server"
  /\ pc = "listening"
  /\ Len(reqs) < MaxRequests
  /\ LET r == Handle(path, code, error)
     IN  /\ reqs' = Append(reqs, r)
         /\ sent' = IF r.posts > 0 THEN Append(sent, ExchangePost(code, Len(reqs) + 1))
                                    ELSE sent
  /\ UNCHANGED <<script, env, command, pc, timers, consumed,
                 console, result, response, bodyRead, user, calls>>

\* The provider grants tokens for a code it issued and has not yet
\* exchanged, to a client that sent its id and secret.
Grantable(code) ==
  /\ code \in {"c1", "c2"} \ consumed
  /\ Truthy(env.CLIENT_ID)
  /\ Truthy(env.CLIENT_SECRET)

\* ExchangeSucceeds with the setTimeout(process.exit) left out.
ExchangeSucceeds_NoShutdown(i, resp) ==
  /\ script = "auth-server"
  /\ pc = "listening"
  /\ i \in 1..Len(reqs)
  /\ reqs[i].phase = "awaiting"
  /\ resp \in TokenResponses(Grantable(reqs[i].code))
  /\ ~ExchangeThrows(resp)
  /\ HasAccessToken(resp.body)
  /\ reqs' = [reqs EXCEPT ![i] =
                [@ EXCEPT !.phase = "responded", !.status = 200,
                          !.page = "authorization_successful",
                          !.tokens = resp.body, !.printed = TRUE]]
  /\ consumed' = consumed \cup {reqs[i].code}
  /\ UNCHANGED <<script, env, command, pc, sent, timers,
                 console, result, response, bodyRead, user, calls>>

\* The exchange of request i returns an access token: the rest of the
\* handler's success branch, and the setTimeout that ends the process.
ExchangeSucceeds(i, resp) ==
  /\ script = "auth-server"
  /\ pc = "listening"
  /\ i \in 1..Len(reqs)
  /\ reqs[i].phase = "awaiting"
  /\ resp \in TokenResponses(Grantable(reqs[i].code))
  /\ ~ExchangeThrows(resp)
  /\ HasAccessToken(resp.body)
  /\ reqs' = [reqs EXCEPT ![i] =
                [@ EXCEPT !.phase = "responded", !.status = 200,
                          !.page = "authorization_successful",
                          !.tokens = resp.body, !.printed = TRUE]]
  /\ timers' = timers + 1
  /\ consumed' = consumed \cup {reqs[i].code}
  /\ UNCHANGED <<script, env, command, pc, sent,
                 console, result, response, bodyRead, user, calls>>

\* ExchangeFails with the shutdown timer of the success branch also set on
\* failure (the setTimeout placed after the if/else instead of inside it).
ExchangeFails_ThenShutdown(i, resp) ==
  /\ script = "auth-server"
  /\ pc = "listening"
  /\ i \in 1..Len(reqs)
  /\ reqs[i].phase = "awaiting"
  /\ resp \in TokenResponses(Grantable(reqs[i].code))
  /\ ~ExchangeThrows(resp)
  /\ ~HasAccessToken(resp.body)
  /\ reqs' = [reqs EXCEPT ![i] =
                [@ EXCEPT !.phase = "responded", !.status = 500,
                          !.page = "token_exchange_failed",
                          !.tokens = resp.body, !.embeds = resp.body]]
  /\ timers' = timers + 1
  /\ UNCHANGED <<script, env, command, pc, sent, consumed,
                 console, result, response, bodyRead, user, calls>>

\* The exchange of request i returns a payload without access token: the
\* handler's else branch.
ExchangeFails(i, resp) ==
  /\ script = "auth-server"
  /\ pc = "listening"
  /\ i \in 1..Len(reqs)
  /\ reqs[i].phase = "awaiting"
  /\ resp \in TokenResponses(Grantable(reqs[i].code))
  /\ ~ExchangeThrows(resp)
  /\ ~HasAccessToken(resp.body)
  /\ reqs' = [reqs EXCEPT ![i] =
                [@ EXCEPT !.phase = "responded", !.status = 500,
                          !.page = "token_exchange_failed",
                          !.tokens = resp.body, !.embeds = resp.body]]
  /\ UNCHANGED <<script, env, command, pc, sent, timers, consumed,
                 console, result, response, bodyRead, user, calls>>

\* The exchange of request i throws inside the async handler: nothing
\* catches it, so the handler's promise rejects without a response.  Node
\* ends the process on an unhandled rejection (the default), or only warns
\* (--unhandled-rejections=warn) and keeps listening.
ExchangeThrowsUnhandled(i, resp, crash) ==
  /\ script = "auth-server"
  /\ pc = "listening"
  /\ i \in 1..Len(reqs)
  /\ reqs[i].phase = "awaiting"
  /\ resp \in TokenResponses(Grantable(reqs[i].code))
  /\ ExchangeThrows(resp)
  /\ reqs' = [reqs EXCEPT ![i] =
                [@ EXCEPT !.phase = "unanswered", !.tokens = "threw"]]
  /\ pc' = IF crash THEN "crashed" ELSE pc
  /\ UNCHANGED <<script, env, command, sent, timers, consumed,
                 console, result, response, bodyRead, user, calls>>

\* A pending setTimeout callback runs: process.exit(0).
ShutdownTimer ==
  /\ script = "auth-server"
  /\ pc = "listening"
  /\ timers > 0
  /\ pc' = "exited"
  /\ UNCHANGED <<script, env, command, sent, reqs, timers, consumed,
                 console, result, response, bodyRead, user, calls>>


----------------------------------------------------------------------------
(* auth.js: the client, user, validate and refresh commands.               *)

AuthCommands == {"client", "user", "validate", "refresh", "help"}

\* response.ok: the status is in 200..299
Ok(status) == status \in 200..299

\* the provider knows the client: it sent a client id and a client secret
ClientKnown == Truthy(env.CLIENT_ID) /\ Truthy(env.CLIENT_SECRET)

\* Bodies of GET https://id.twitch.tv/oauth2/validate.
\*   metadata     {login, user_id, scopes, expires_in}
\*   no_scopes    an object without `scopes`
\*   err_invalid  {status: 401, message: "invalid access token"}
ValidateResponses ==
  {NetworkError}
    \cup { [transport |-> TRUE, status |-> 200, body |-> b] :
             b \in {"metadata", "no_scopes", "null", "unparseable"} }
    \cup { [transport |-> TRUE, status |-> s, body |-> b] :
             s \in {401, 500}, b \in {"err_invalid", "unparseable"} }

\* case 'client': getClientCredentialsToken() up to its await fetch
GetClientCredentialsTokenCall ==
  /\ script = "auth"
  /\ pc = "main"
  /\ command = "client"
  /\ console' = console \cup {"getting_app_token"}
  /\ sent' = Append(sent, Outbound("POST", "oauth2/token:client_credentials",
                                   {"CLIENT_ID", "CLIENT_SECRET"}, "none", 0))
  /\ pc' = "getClientCredentialsToken"
  /\ UNCHANGED <<script, env, command, reqs, timers, consumed,
                 result, response, bodyRead, user, calls>>

\* getClientCredentialsToken() from the response on
GetClientCredentialsTokenReturn(resp) ==
  /\ script = "auth"
  /\ pc = "getClientCredentialsToken"
  /\ resp \in TokenResponses(ClientKnown)
  /\ response' = resp
  /\ IF ~resp.transport
       THEN /\ pc' = "threw"
            /\ UNCHANGED <<console, result, bodyRead>>
       ELSE /\ bodyRead' = TRUE
            /\ IF resp.body \in {"unparseable", "null"}
                 THEN /\ pc' = "threw"
                      /\ UNCHANGED <<console, result>>
                 ELSE /\ pc' = "done"
                      /\ IF HasAccessToken(resp.body)
                           THEN /\ console' = console \cup {"app_token_obtained"}
                                /\ result' = resp.body
                           ELSE /\ console' = console \cup {"failed"}
                                /\ result' = "null"
  /\ UNCHANGED <<script, env, command, sent, reqs, timers, consumed,
                 user, calls>>

\* case 'user': startUserAuthFlow() prints the authorization URL
StartUserAuthFlow ==
  /\ script = "auth"
  /\ pc = "main"
  /\ command = "user"
  /\ console' = console \cup {"authorization_url"}
  /\ pc' = "done"
  /\ UNCHANGED <<script, env, command, sent, reqs, timers, consumed,
                 result, response, bodyRead, user, calls>>

\* default: the usage text
AuthHelp ==
  /\ script = "auth"
  /\ pc = "main"
  /\ command = "help"
  /\ console' = console \cup {"usage"}
  /\ pc' = "done"
  /\ UNCHANGED <<script, env, command, sent, reqs, timers, consumed,
                 result, response, bodyRead, user, calls>>

\* case 'validate': validateToken() up to its await fetch
ValidateTokenCall ==
  /\ script = "auth"
  /\ pc = "main"
  /\ command = "validate"
  /\ IF ~Truthy(env.ACCESS_TOKEN)
       THEN /\ console' = console \cup {"no_access_token"}
            /\ result' = "null"
            /\ pc' = "done"
            /\ UNCHANGED sent
       ELSE /\ console' = console \cup {"validating"}
            /\ sent' = Append(sent, Outbound("GET", "oauth2/validate",
                                             {"ACCESS_TOKEN"}, "none", 0))
            /\ pc' = "validateToken"
            /\ UNCHANGED result
  /\ UNCHANGED <<script, env, command, reqs, timers, consumed,
                 response, bodyRead, user, calls>>

\* ValidateTokenReturn with the body parsed before response.ok is tested.
ValidateTokenReturn_ParsesFirst(resp) ==
  /\ script = "auth"
  /\ pc = "validateToken"
  /\ resp \in ValidateResponses
  /\ response' = resp
  /\ IF ~resp.transport
       THEN /\ pc' = "threw"
            /\ UNCHANGED <<console, result, bodyRead>>
       ELSE /\ bodyRead' = TRUE
            /\ IF resp.body = "unparseable"
                 THEN /\ pc' = "threw"
                      /\ UNCHANGED <<console, result>>
                 ELSE IF Ok(resp.status)
                   THEN IF resp.body \in {"null", "no_scopes"}
                          THEN /\ pc' = "threw"
                               /\ console' = console \cup {"token_valid"}
                               /\ UNCHANGED result
                          ELSE /\ pc' = "done"
                               /\ console' = console \cup {"token_valid"}
                               /\ result' = resp.body
                   ELSE /\ pc' = "done"
                        /\ console' = console \cup {"token_invalid"}
                        /\ result' = "null"
  /\ UNCHANGED <<script, env, command, sent, reqs, timers, consumed,
                 user, calls>>

\* validateToken() from the response on
ValidateTokenReturn(resp) ==
  /\ script = "auth"
  /\ pc = "validateToken"
  /\ resp \in ValidateResponses
  /\ response' = resp
  /\ IF ~resp.transport
       THEN /\ pc' = "threw"
            /\ UNCHANGED <<console, result, bodyRead>>
       ELSE IF Ok(resp.status)
         THEN /\ bodyRead' = TRUE
              /\ IF resp.body = "unparseable"
                   THEN /\ pc' = "threw"
                        /\ UNCHANGED <<console, result>>
                   ELSE IF resp.body \in {"null", "no_scopes"}
                     \* data.login on null, or data.scopes.join on undefined,
                     \* after 'Token is VALID' was printed
                     THEN /\ pc' = "threw"
                          /\ console' = console \cup {"token_valid"}
                          /\ UNCHANGED result
                     ELSE /\ pc' = "done"
                          /\ console' = console \cup {"token_valid"}
                          /\ result' = resp.body
         ELSE /\ pc' = "done"
              /\ console' = console \cup {"token_invalid"}
              /\ result' = "null"
              /\ UNCHANGED bodyRead
  /\ UNCHANGED <<script, env, command, sent, reqs, timers, consumed,
                 user, calls>>

\* RefreshTokenCall with the guard written `refreshToken === undefined`:
\* an empty TWITCH_REFRESH_TOKEN passes it.
RefreshTokenCall_UndefinedOnly ==
  /\ script = "auth"
  /\ pc = "main"
  /\ command = "refresh"
  /\ IF env.REFRESH_TOKEN = "absent"
       THEN /\ console' = console \cup {"no_refresh_token"}
            /\ result' = "null"
            /\ pc' = "done"
            /\ UNCHANGED sent
       ELSE /\ console' = console \cup {"refreshing"}
            /\ sent' = Append(sent, Outbound("POST", "oauth2/token:refresh_token",
                                             {"CLIENT_ID", "CLIENT_SECRET",
                                              "REFRESH_TOKEN"}, "none", 0))
            /\ pc' = "refreshToken"
            /\ UNCHANGED result
  /\ UNCHANGED <<script, env, command, reqs, timers, consumed,
                 response, bodyRead, user, calls>>

\* case 'refresh': refreshToken() up to its await fetch
RefreshTokenCall ==
  /\ script = "auth"
  /\ pc = "main"
  /\ command = "refresh"
  /\ IF ~Truthy(env.REFRESH_TOKEN)
       THEN /\ console' = console \cup {"no_refresh_token"}
            /\ result' = "null"
            /\ pc' = "done"
            /\ UNCHANGED sent
       ELSE /\ console' = console \cup {"refreshing"}
            /\ sent' = Append(sent, Outbound("POST", "oauth2/token:refresh_token",
                                             {"CLIENT_ID", "CLIENT_SECRET",
                                              "REFRESH_TOKEN"}, "none", 0))
            /\ pc' = "refreshToken"
            /\ UNCHANGED result
  /\ UNCHANGED <<script, env, command, reqs, timers, consumed,
                 response, bodyRead, user, calls>>

\* refreshToken() from the response on
RefreshTokenReturn(resp) ==
  /\ script = "auth"
  /\ pc = "refreshToken"
  /\ resp \in TokenResponses(ClientKnown)
  /\ response' = resp
  /\ IF ~resp.transport
       THEN /\ pc' = "threw"
            /\ UNCHANGED <<console, result, bodyRead>>
       ELSE /\ bodyRead' = TRUE
            /\ IF resp.body \in {"unparseable", "null"}
                 THEN /\ pc' = "threw"
                      /\ UNCHANGED <<console, result>>
                 ELSE IF HasAccessToken(resp.body)
                   THEN IF HasRefreshToken(resp.body)
                          THEN /\ pc' = "done"
                               /\ console' = console \cup {"token_refreshed"}
                               /\ result' = resp.body
                          \* data.refresh_token.substring on undefined
                          ELSE /\ pc' = "threw"
                               /\ console' = console \cup {"token_refreshed"}
                               /\ UNCHANGED result
                   ELSE /\ pc' = "done"
                        /\ console' = console \cup {"refresh_failed"}
                        /\ result' = "null"
  /\ UNCHANGED <<script, env, command, sent, reqs, timers, consumed,
                 user, calls>>


----------------------------------------------------------------------------
(* test-api.js: the Helix probe commands.                                  *)

ProbeCommands == {"user", "followers", "stream", "all", "help"}

\* Bodies of a Helix answer.
\*   error        {error, status, message}: no `data` member
\*   empty        {data: []}  (for /channels/followers with total)
\*   row_u1/u2    {data: [{id: "u1" | "u2", ...}]}  (for /channels/followers
\*                with total)
HelixRows == {"row_u1", "row_u2"}
\* result.data.data?.length > 0
HasRows(body) == body \in HelixRows
\* result.data.data[0].id
FirstId(body) == IF body = "row_u1" THEN "u1" ELSE "u2"

\* What a GET to a Helix endpoint can come back with; `remaining` is the
\* Ratelimit-Remaining header.
HelixResponses ==
  {[transport |-> FALSE, status |-> 0, remaining |-> 0, body |-> "none"]}
    \cup { [transport |-> TRUE, status |-> 200, remaining |-> n, body |-> b] :
             n \in {0, 799}, b \in {"unparseable", "null", "empty"} \cup HelixRows }
    \cup { [transport |-> TRUE, status |-> 401, remaining |-> 799, body |-> b] :
             b \in {"error", "unparseable"} }
    \cup { [transport |-> TRUE, status |-> 429, remaining |-> 0, body |-> b] :
             b \in {"error", "unparseable"} }

\* The ACCESS_TOKEN guard at the top of the main flow: process.exit(1)
ProbeNoToken ==
  /\ script = "test-api"
  /\ pc = "main"
  /\ ~Truthy(env.ACCESS_TOKEN)
  /\ console' = console \cup {"no_access_token"}
  /\ pc' = "exit1"
  /\ UNCHANGED <<script, env, command, sent, reqs, timers, consumed,
                 result, response, bodyRead, user, calls>>

\* default: the usage text
ProbeHelp ==
  /\ script = "test-api"
  /\ pc = "main"
  /\ Truthy(env.ACCESS_TOKEN)
  /\ command = "help"
  /\ console' = console \cup {"usage"}
  /\ pc' = "done"
  /\ UNCHANGED <<script, env, command, sent, reqs, timers, consumed,
                 result, response, bodyRead, user, calls>>

\* apiCall(endpoint) up to its await fetch: one GET, with the access token
\* and the client id in its headers.
\*   phase   "awaiting" | "returned" | "threw"
\*   got            the response fetch resolved with
\*   status, data   the {status, data} object apiCall returns
\*   remaining      the Ratelimit-Remaining value it logged (-1: none yet)
NoHelixResponse ==
  [transport |-> FALSE, status |-> -1, remaining |-> -1, body |-> "none"]

ApiCallSend(endpoint, arg) ==
  /\ calls' = Append(calls, [endpoint |-> endpoint, arg |-> arg,
                             phase |-> "awaiting", got |-> NoHelixResponse,
                             status |-> 0, remaining |-> -1, data |-> "none"])
  /\ sent' = Append(sent, Outbound("GET", endpoint, {"ACCESS_TOKEN", "CLIENT_ID"},
                                   arg, Len(calls) + 1))

\* ApiCallReturn with a retry: on 429 the same GET is sent again and the
\* call keeps waiting.
ApiCallReturn_RetryOn429(resp) ==
  /\ script = "test-api"
  /\ pc \in {"getUser", "getFollowers", "getStream"}
  /\ calls # <<>>
  /\ calls[Len(calls)].phase = "awaiting"
  /\ resp \in HelixResponses
  /\ IF ~resp.transport
       THEN /\ calls' = [calls EXCEPT ![Len(calls)].phase = "threw",
                                      ![Len(calls)].got = resp]
            /\ pc' = "threw"
            /\ UNCHANGED sent
       ELSE IF resp.status = 429
         THEN /\ calls' = [calls EXCEPT ![Len(calls)].got = resp,
                                        ![Len(calls)].remaining = resp.remaining]
              /\ sent' = Append(sent, sent[Len(sent)])
              /\ UNCHANGED pc
         ELSE IF resp.body = "unparseable"
           THEN /\ calls' = [calls EXCEPT ![Len(calls)].phase = "threw",
                                          ![Len(calls)].got = resp,
                                          ![Len(calls)].remaining = resp.remaining]
                /\ pc' = "threw"
                /\ UNCHANGED sent
           ELSE /\ calls' = [calls EXCEPT ![Len(calls)].phase = "returned",
                                          ![Len(calls)].got = resp,
                                          ![Len(calls)].remaining = resp.remaining,
                                          ![Len(calls)].status = resp.status,
                                          ![Len(calls)].data = resp.body]
                /\ UNCHANGED <<pc, sent>>
  /\ UNCHANGED <<script, env, command, reqs, timers, consumed,
                 console, result, response, bodyRead, user>>

\* apiCall from the response on: log the rate limit headers, parse the
\* body, return {status, data}.
ApiCallReturn(resp) ==
  /\ script = "test-api"
  /\ pc \in {"getUser", "getFollowers", "getStream"}
  /\ calls # <<>>
  /\ calls[Len(calls)].phase = "awaiting"
  /\ resp \in HelixResponses
  /\ IF ~resp.transport
       THEN /\ calls' = [calls EXCEPT ![Len(calls)].phase = "threw",
                                      ![Len(calls)].got = resp]
            /\ pc' = "threw"
       ELSE IF resp.body = "unparseable"
         THEN /\ calls' = [calls EXCEPT ![Len(calls)].phase = "threw",
                                        ![Len(calls)].got = resp,
                                        ![Len(calls)].remaining = resp.remaining]
              /\ pc' = "threw"
         ELSE /\ calls' = [calls EXCEPT ![Len(calls)].phase = "returned",
                                        ![Len(calls)].got = resp,
                                        ![Len(calls)].remaining = resp.remaining,
                                        ![Len(calls)].status = resp.status,
                                        ![Len(calls)].data = resp.body]
              /\ UNCHANGED pc
  /\ UNCHANGED <<script, env, command, sent, reqs, timers, consumed,
                 console, result, response, bodyRead, user>>

\* the apiCall a caller is waiting for has returned
Returned == calls # <<>> /\ calls[Len(calls)].phase = "returned"
LastCall == calls[Len(calls)]

\* cases 'user', 'followers', 'stream', 'all': getUser() up to its await
GetUserCall ==
  /\ script = "test-api"
  /\ pc = "main"
  /\ Truthy(env.ACCESS_TOKEN)
  /\ command \in {"user", "followers", "stream", "all"}
  /\ ApiCallSend("/users", "login")
  /\ pc' = "getUser"
  /\ UNCHANGED <<script, env, command, reqs, timers, consumed,
                 console, result, response, bodyRead, user>>

\* GetUserReturn with the `if (user)` test of the command switch left out
\* (the next call written with user?.id).
GetUserReturn_NoUserCheck ==
  /\ script = "test-api"
  /\ pc = "getUser"
  /\ Returned
  /\ IF LastCall.data = "null"
       THEN /\ pc' = "threw"
            /\ UNCHANGED <<user, console, calls, sent>>
       ELSE /\ user' = IF HasRows(LastCall.data)
                         THEN FirstId(LastCall.data) ELSE "null"
            /\ console' = console \cup
                 {IF HasRows(LastCall.data) THEN "user_found" ELSE "user_not_found"}
            /\ CASE command = "user" ->
                      /\ pc' = "done"
                      /\ UNCHANGED <<calls, sent>>
                 [] command \in {"followers", "all"} ->
                      /\ pc' = "getFollowers"
                      /\ ApiCallSend("/channels/followers", user')
                 [] command = "stream" ->
                      /\ pc' = "getStream"
                      /\ ApiCallSend("/streams", user')
  /\ UNCHANGED <<script, env, command, reqs, timers, consumed,
                 result, response, bodyRead>>

\* getUser() from apiCall's result on, and the command's next step
GetUserReturn ==
  /\ script = "test-api"
  /\ pc = "getUser"
  /\ Returned
  /\ IF LastCall.data = "null"
       \* result.data.data on null: TypeError
       THEN /\ pc' = "threw"
            /\ UNCHANGED <<user, console, calls, sent>>
       ELSE IF HasRows(LastCall.data)
         THEN /\ user' = FirstId(LastCall.data)
              /\ console' = console \cup {"user_found"}
              /\ CASE command = "user" ->
                        /\ pc' = "done"
                        /\ UNCHANGED <<calls, sent>>
                   [] command \in {"followers", "all"} ->
                        /\ pc' = "getFollowers"
                        /\ ApiCallSend("/channels/followers", user')
                   [] command = "stream" ->
                        /\ pc' = "getStream"
                        /\ ApiCallSend("/streams", user')
         ELSE /\ user' = "null"
              /\ console' = console \cup {"user_not_found"}
              /\ pc' = "done"
              /\ UNCHANGED <<calls, sent>>
  /\ UNCHANGED <<script, env, command, reqs, timers, consumed,
                 result, response, bodyRead>>

\* getFollowers() from apiCall's result on, and the command's next step
GetFollowersReturn ==
  /\ script = "test-api"
  /\ pc = "getFollowers"
  /\ Returned
  /\ IF LastCall.data = "null"
       \* result.data.total on null: TypeError
       THEN /\ pc' = "threw"
            /\ UNCHANGED <<console, calls, sent>>
       ELSE /\ console' = console \cup {"total_followers"}
            /\ IF command = "all"
                 THEN /\ pc' = "getStream"
                      /\ ApiCallSend("/streams", user)
                 ELSE /\ pc' = "done"
                      /\ UNCHANGED <<calls, sent>>
  /\ UNCHANGED <<script, env, command, reqs, timers, consumed,
                 result, response, bodyRead, user>>

\* getStream() from apiCall's result on
GetStreamReturn ==
  /\ script = "test-api"
  /\ pc = "getStream"
  /\ Returned
  /\ IF LastCall.data = "null"
       \* result.data.data on null: TypeError
       THEN /\ pc' = "threw"
            /\ UNCHANGED console
       ELSE /\ console' = console \cup
                 {IF HasRows(LastCall.data) THEN "live" ELSE "not_live"}
            /\ pc' = "done"
  /\ UNCHANGED <<script, env, command, sent, reqs, timers, consumed,
                 result, response, bodyRead, user, calls>>

----------------------------------------------------------------------------

\* The environment a script is started with.  Values a script never reads
\* are left absent.
EnvFor(s) ==
  LET reads == CASE s = "auth-server" -> {"CLIENT_ID", "CLIENT_SECRET"}
                 [] s = "auth"        -> EnvNames
                 [] s = "test-api"    -> {"CLIENT_ID", "ACCESS_TOKEN"}
  IN  { e \in [EnvNames -> EnvVals] :
          \A n \in EnvNames \ reads : e[n] = "absent" }

\* process.argv[2] || 'help'
CommandsFor(s) ==
  CASE s = "auth-server" -> {"none"}
    [] s = "auth"        -> AuthCommands
    [] s = "test-api"    -> ProbeCommands

Init ==
  /\ script \in Scripts
  /\ env \in EnvFor(script)
  /\ command \in CommandsFor(script)
  /\ pc = IF script = "auth-server" THEN "listening" ELSE "main"
  /\ sent = <<>>
  /\ reqs = <<>>
  /\ timers = 0
  /\ consumed = {}
  /\ console = {}
  /\ result = "none"
  /\ response = NoResponse
  /\ bodyRead = FALSE
  /\ user = "none"
  /\ calls = <<>>

Next ==
  \/ \E p \in Paths, c \in CodeVals, e \in ErrorVals : Receive(p, c, e)
  \/ \E i \in 1..MaxRequests, r \in TokenResponses(TRUE) : ExchangeSucceeds(i, r)
  \/ \E i \in 1..MaxRequests, r \in TokenResponses(TRUE) : ExchangeFails(i, r)
  \/ \E i \in 1..MaxRequests, r \in TokenResponses(TRUE), crash \in BOOLEAN :
        ExchangeThrowsUnhandled(i, r, crash)
  \/ ShutdownTimer
  \/ GetClientCredentialsTokenCall
  \/ \E r \in TokenResponses(TRUE) : GetClientCredentialsTokenReturn(r)
  \/ StartUserAuthFlow
  \/ AuthHelp
  \/ ValidateTokenCall
  \/ \E r \in ValidateResponses : ValidateTokenReturn(r)
  \/ RefreshTokenCall
  \/ \E r \in TokenResponses(TRUE) : RefreshTokenReturn(r)
  \/ ProbeNoToken
  \/ ProbeHelp
  \/ GetUserCall
  \/ \E r \in HelixResponses : ApiCallReturn(r)
  \/ GetUserReturn
  \/ GetFollowersReturn
  \/ GetStreamReturn

Spec == Init /\ [][Next]_vars

\* The event loop runs a pending timer callback: setTimeout's callback is
\* not postponed forever.
FairSpec == Spec /\ WF_vars(ShutdownTimer)

----------------------------------------------------------------------------
(* Properties of the callback listener.                                    *)

Handled == 1..Len(reqs)
\* token-exchange POSTs sent for inbound request i
PostsFor(i) == {k \in DOMAIN sent : sent[k].for = i}
\* request i got the confirmation page and its credentials were printed
Confirmed(i) ==
  /\ reqs[i].phase = "responded"
  /\ reqs[i].status = 200
  /\ reqs[i].page = "authorization_successful"
  /\ reqs[i].printed

\* C1: every request to the callback path that carries an `error` query
\* parameter, with or without a `code`, is answered with HTTP 400, starts no
\* token exchange, and leaves the listener running.
C1_ErrorParamRejected ==
  [][\A c \in CodeVals, e \in ErrorVals \ {"absent"} :
       Receive("/callback", c, e) =>
         /\ reqs'[Len(reqs')].status = 400
         /\ reqs'[Len(reqs')].phase = "responded"
         /\ sent' = sent
         /\ pc' = "listening"
         /\ timers' = timers]_vars

C3_SuccessConfirmsThenExits ==
  /\ [](\A i \in Handled :
          HasAccessToken(reqs[i].tokens) =>
            /\ Truthy(reqs[i].code) /\ ~Truthy(reqs[i].error)
            /\ Confirmed(i))
  /\ [](pc = "exited" => \E i \in Handled : Confirmed(i))
  /\ ((\E i \in Handled : HasAccessToken(reqs[i].tokens)) ~> (pc # "listening"))

\* C3 witness: the process has exited through the timer after a confirmation.
C3_Witness ==
  /\ pc = "exited"
  /\ \E i \in Handled : Confirmed(i) /\ reqs[i].tokens = "token_pair"

\* C4: in any run of the listener at most one callback request is handled
\* successfully.
C4_AtMostOneSuccess ==
  Cardinality({i \in Handled : Confirmed(i)}) <= 1

\* C5: at every moment at most one token exchange is pending, and no
\* request is processed while one is.
C5_NoOverlap ==
  Cardinality({i \in Handled : reqs[i].phase = "awaiting"}) <= 1

----------------------------------------------------------------------------
(* Properties of auth.js.                                                  *)

\* C6: refresh with no refresh token configured returns null after
\* reporting the missing value, and sends no request.
C6_RefreshWithoutTokenNoNetwork ==
  (script = "auth" /\ command = "refresh" /\ ~Truthy(env.REFRESH_TOKEN)) =>
    /\ sent = <<>>
    /\ pc \in {"main", "done"}
    /\ pc = "done" => (result = "null" /\ "no_refresh_token" \in console)

\* C6 witness: the refresh command has ended without a refresh token.
C6_Witness ==
  /\ script = "auth" /\ command = "refresh"
  /\ env.REFRESH_TOKEN = "empty"
  /\ pc = "done"
  /\ result = "null"

\* the single refresh POST ended in one of the failures of section 4.4
RefreshFailure(r) ==
  /\ r.transport
  /\ \/ ~Ok(r.status)
     \/ r.body = "unparseable"
     \/ ~HasAccessToken(r.body)
     \/ ~HasRefreshToken(r.body)

\* C7: every failure outcome of the refresh POST ends the invocation with
\* the null result: no throw, no second request.
C7_RefreshFailureReturnsNull ==
  (script = "auth" /\ command = "refresh" /\ RefreshFailure(response)) =>
    /\ pc = "done"
    /\ result = "null"
    /\ Len(sent) = 1

\* C8: no HTTP request is sent that needs an environment value which is
\* missing: the operation reports the missing value and stops before.
C8_NoRequestWithMissingCredential ==
  \A k \in DOMAIN sent : \A n \in sent[k].uses : Truthy(env[n])

\* C9: a non-2xx answer of the validation endpoint makes validateToken
\* return null, without a throw, without reading the body and with exactly
\* one GET sent; a 2xx answer holding the metadata returns that metadata.
C9_ValidateNon2xxIsInvalid ==
  (script = "auth" /\ command = "validate" /\ response.transport) =>
    /\ ~Ok(response.status) =>
         /\ pc = "done"
         /\ result = "null"
         /\ ~bodyRead
         /\ "token_invalid" \in console
         /\ Len(sent) = 1
         /\ sent[1].method = "GET"
    /\ (Ok(response.status) /\ response.body = "metadata") =>
         /\ pc = "done"
         /\ result = "metadata"
         /\ Len(sent) = 1

\* C9 witness: the endpoint rejected the token with 401.
C9_Witness ==
  /\ script = "auth" /\ command = "validate"
  /\ response.transport /\ response.status = 401
  /\ result = "null"
  /\ pc = "done"

----------------------------------------------------------------------------
(* Properties of test-api.js.                                              *)

\* GET requests sent for apiCall invocation n
GetsFor(n) == {k \in DOMAIN sent : sent[k].for = n}

\* C10: each apiCall sends exactly one GET whatever the response; a 429
\* with Ratelimit-Remaining 0 is returned as {status: 429, data: parsed
\* body}, and no endpoint is requested a second time.
C10_OneGetPerProbeCall ==
  script = "test-api" =>
    /\ Len(sent) = Len(calls)
    /\ \A n \in 1..Len(calls) :
         /\ Cardinality(GetsFor(n)) = 1
         /\ \A k \in GetsFor(n) :
              sent[k].method = "GET" /\ sent[k].url = calls[n].endpoint
         /\ (/\ calls[n].got.transport
             /\ calls[n].got.status = 429
             /\ calls[n].got.remaining = 0
             /\ calls[n].got.body # "unparseable") =>
              /\ calls[n].phase = "returned"
              /\ calls[n].status = 429
              /\ calls[n].data = calls[n].got.body
         /\ \A m \in 1..Len(calls) :
              m # n => calls[m].endpoint # calls[n].endpoint

\* C10 witness: a probe call was answered 429 with no requests remaining,
\* its result was handed to the caller and the command has ended.
C10_Witness ==
  /\ script = "test-api"
  /\ pc = "done"
  /\ \E n \in 1..Len(calls) :
       /\ calls[n].got.status = 429
       /\ calls[n].got.remaining = 0
       /\ calls[n].phase = "returned"
       /\ calls[n].status = 429
       /\ calls[n].data = "error"

\* the endpoints a command requests after the /users lookup, in order
FollowUps(cmd) ==
  CASE cmd = "followers" -> <<"/channels/followers">>
    [] cmd = "stream"    -> <<"/streams">>
    [] cmd = "all"       -> <<"/channels/followers", "/streams">>
    [] OTHER             -> <<>>

\* C11: in every probe command the requests are sequential and ordered: the
\* /users lookup is sent first; every later request is sent only after all
\* earlier calls have completed and the lookup returned a user, carries that
\* user's id, and follows the command's order (followers before streams in
\* `all`); when the lookup returns no user nothing more is sent.
C11_ProbeRequestsSequential ==
  script = "test-api" =>
    /\ Len(calls) <= 1 + Len(FollowUps(command))
    /\ \A n \in 1..Len(calls) :
         /\ sent[n].for = n
         /\ sent[n].arg = calls[n].arg
         /\ n < Len(calls) => calls[n].phase = "returned"
         /\ n = 1 => calls[n].endpoint = "/users"
         /\ n > 1 =>
              /\ HasRows(calls[1].data)
              /\ user = FirstId(calls[1].data)
              /\ calls[n].arg = user
              /\ calls[n].endpoint = FollowUps(command)[n - 1]
    /\ user = "null" => Len(calls) = 1

\* C11 witness: the `all` command has ended after its three requests, the
\* last two carrying the id the lookup returned.
C11_Witness ==
  /\ script = "test-api" /\ command = "all"
  /\ pc = "done"
  /\ Len(calls) = 3
  /\ calls[1].data = "row_u2"
  /\ calls[2].endpoint = "/channels/followers" /\ calls[2].arg = "u2"
  /\ calls[3].endpoint = "/streams" /\ calls[3].arg = "u2"

\* C12: every request the listener accepted is answered: no handler ends
\* (returns or rejects) without res.end() having been called, and none
\* answers twice.
C12_EveryRequestAnswered ==
  \A i \in Handled :
    /\ reqs[i].phase \in {"awaiting", "responded"}
    /\ reqs[i].phase = "responded" => reqs[i].status \in {200, 400, 500}

====
